---- MODULE Spec2Model ----
(***************************************************************************)
(* vite-screenshot-util: the Process Supervisor (plugin/plugin.ts), the    *)
(* child automation processes it spawns, the Playwright orchestrator hook  *)
(* (useScreenshotPlaywright) that drives it, the capture server            *)
(* (server/screenshot-server.ts) and the in-page hook (useScreenshot).     *)
(***************************************************************************)
EXTENDS Integers, Sequences, FiniteSets, TLC

\* ------------------------------------------------------------------ bounds
MaxProcs == 2
MaxStarts == 2
MaxInvocations == 2

Null == 0
\* plugin.ts line 43: port = 3001 unless configured
DefaultPort == 3001
\* part_000 line 193: the port in the hook's default server URL
HookDefaultPort == 3001
\* the ports a project may configure
Ports == {DefaultPort, DefaultPort + 1}
Pids == 1..MaxProcs
Callers == {"c1", "c2"}
NoResp == [kind |-> "none"]

VARIABLES
    enabled,          \* plugin option `enabled`
    serverProcess,    \* plugin.ts: let serverProcess (Null or a pid)
    isServerReady,    \* plugin.ts: let isServerReady
    closed,           \* buildEnd has run (development server shut down)
    status,           \* per child: "unspawned" | "running" | "failed" | "exited"
    signalled,        \* per child: kill() has been called on it
    exitListener,     \* per child: "none" | "reset" (line 79) | "log" (line 89)
    wroteMarker,      \* per child: the readiness marker was delivered on its stdout
    spawnError,       \* per child: its 'error' event was emitted (the spawn failed)
    mw,               \* per client: "idle" | "wait" (start handler inside its 1000 ms wait)
    mwNth,            \* per client: ordinal of its pending start request since the last stop
    mwPid,            \* per client: the child its pending start request spawned
    lastResp,         \* the last response the middleware wrote
    spawnsSinceStop,  \* history: spawns since the last stopServer call (or construction)
    startsSinceStop,  \* history: start requests handled since the last stopServer call
    exitsSinceStop,   \* history: own exits of the tracked child since the last stopServer call
    lostByExit,       \* history: the handle was last cleared by the child's own exit
    lastOp,           \* history: the step that produced the current state
    orch,             \* per caller: the state of its useScreenshotPlaywright hook
    invocations,      \* per caller: takeScreenshot calls made so far
    input,            \* the page and options one capture request is built from
    request,          \* the capture request body posted to /screenshot
    srv,              \* screenshot-server.ts: the handler's progress on that request
    page,             \* the state of a page's in-page useScreenshot hook
    port              \* plugin option `port`, the port the capture server listens on

supVars == <<enabled, serverProcess, isServerReady, closed, status, signalled,
             exitListener, wroteMarker, spawnError>>
mwVars == <<mw, mwNth, mwPid, lastResp>>
histVars == <<spawnsSinceStop, startsSinceStop, exitsSinceStop, lostByExit>>
vars == <<enabled, serverProcess, isServerReady, closed, status, signalled,
          exitListener, wroteMarker, spawnError, mw, mwNth, mwPid, lastResp,
          spawnsSinceStop, startsSinceStop, exitsSinceStop, lostByExit, lastOp,
          orch, invocations, input, request, srv, page, port>>
orchVars == <<orch, invocations>>
capVars == <<input, request, srv, page, port>>

\* state of a hook before takeScreenshot is called, part_000 line 81, with
\* the per-invocation history of requests issued and callbacks invoked
Fresh ==
    [pc |-> "idle", isTakingScreenshot |-> FALSE, startData |-> NoResp,
     nStartReq |-> 0, nCaptureReq |-> 0, nStopReq |-> 0,
     nSuccess |-> 0, nError |-> 0, nEnd |-> 0, endArgs |-> {},
     gotResponse |-> FALSE, stopBeforeStart |-> FALSE, outcome |-> "none",
     startOutcome |-> "none", nSettle |-> 0, usedPid |-> Null]

\* ------------------------------------------------------------ child helpers
Unspawned == {p \in Pids : status[p] = "unspawned"}
NextPid == CHOOSE p \in Unspawned : \A q \in Unspawned : p <= q
\* spawned and not yet exited (a signalled child that has not exited is alive)
Alive(p) == status[p] = "running"
AliveSet == {p \in Pids : Alive(p)}

\* startServer with the spawned child kept in a local instead of serverProcess
StartServerUntracked ==
    IF serverProcess # Null \/ ~enabled
    THEN UNCHANGED <<serverProcess, status, exitListener, spawnsSinceStop, lostByExit>>
    ELSE /\ status' = [status EXCEPT ![NextPid] = "running"]
         /\ exitListener' = [exitListener EXCEPT ![NextPid] = "reset"]
         /\ spawnsSinceStop' = spawnsSinceStop + 1
         /\ UNCHANGED <<serverProcess, lostByExit>>

\* plugin.ts startServer, lines 48-84
StartServer ==
    IF serverProcess # Null \/ ~enabled
    THEN UNCHANGED <<serverProcess, status, exitListener, spawnsSinceStop, lostByExit>>
    ELSE /\ serverProcess' = NextPid
         /\ status' = [status EXCEPT ![NextPid] = "running"]
         /\ exitListener' = [exitListener EXCEPT ![NextPid] = "reset"]
         /\ spawnsSinceStop' = spawnsSinceStop + 1
         /\ lostByExit' = FALSE

\* stopServer that drops the handle without calling kill()
StopServerNoKill ==
    /\ IF serverProcess # Null
       THEN /\ exitListener' = [exitListener EXCEPT ![serverProcess] = "log"]
            /\ serverProcess' = Null
            /\ isServerReady' = FALSE
            /\ lostByExit' = FALSE
            /\ UNCHANGED signalled
       ELSE UNCHANGED <<exitListener, signalled, serverProcess, isServerReady, lostByExit>>
    /\ spawnsSinceStop' = 0
    /\ startsSinceStop' = 0
    /\ exitsSinceStop' = 0

\* plugin.ts stopServer, lines 86-96
StopServer ==
    /\ IF serverProcess # Null
       THEN /\ exitListener' = [exitListener EXCEPT ![serverProcess] = "log"]
            /\ signalled' = [signalled EXCEPT ![serverProcess] = TRUE]
            /\ serverProcess' = Null
            /\ isServerReady' = FALSE
            /\ lostByExit' = FALSE
       ELSE UNCHANGED <<exitListener, signalled, serverProcess, isServerReady, lostByExit>>
    /\ spawnsSinceStop' = 0
    /\ startsSinceStop' = 0
    /\ exitsSinceStop' = 0

\* the JSON body written at plugin.ts lines 120-125, with the supervisor
\* state at the moment it is written recorded next to it
StartBody(nth, pid) ==
    [kind |-> "start", started |-> TRUE, port |-> port, ready |-> isServerReady,
     tracked |-> serverProcess # Null, nth |-> nth,
     trackedWrote |-> serverProcess # Null /\ wroteMarker[serverProcess],
     spawnFailed |-> pid # Null /\ spawnError[pid]]

\* the start middleware registered without configureServer's enabled check,
\* spawning by itself whenever no process is tracked
MwStartIgnoresEnabled(c) ==
    /\ mw[c] = "idle"
    /\ startsSinceStop < MaxStarts
    /\ serverProcess # Null \/ Unspawned # {}
    /\ startsSinceStop' = startsSinceStop + 1
    /\ IF serverProcess = Null
       THEN /\ serverProcess' = NextPid
            /\ status' = [status EXCEPT ![NextPid] = "running"]
            /\ exitListener' = [exitListener EXCEPT ![NextPid] = "reset"]
            /\ spawnsSinceStop' = spawnsSinceStop + 1
            /\ lostByExit' = FALSE
            /\ mw' = [mw EXCEPT ![c] = "wait"]
            /\ mwNth' = [mwNth EXCEPT ![c] = startsSinceStop + 1]
            /\ mwPid' = [mwPid EXCEPT ![c] = serverProcess']
            /\ UNCHANGED lastResp
       ELSE /\ lastResp' = StartBody(startsSinceStop + 1, Null)
            /\ UNCHANGED <<serverProcess, status, exitListener, spawnsSinceStop,
                           lostByExit, mw, mwNth, mwPid>>
    /\ UNCHANGED <<enabled, isServerReady, closed, signalled, wroteMarker, spawnError,
                   exitsSinceStop>>

\* middleware, /__screenshot_start, lines 114-119 (up to the await) and, when
\* a process is already tracked, lines 120-126 in the same turn
MwStart(c) ==
    /\ enabled
    /\ mw[c] = "idle"
    /\ startsSinceStop < MaxStarts
    /\ serverProcess # Null \/ Unspawned # {}
    /\ startsSinceStop' = startsSinceStop + 1
    /\ IF serverProcess = Null
       THEN /\ StartServer
            /\ mw' = [mw EXCEPT ![c] = "wait"]
            /\ mwNth' = [mwNth EXCEPT ![c] = startsSinceStop + 1]
            /\ mwPid' = [mwPid EXCEPT ![c] = serverProcess']
            /\ UNCHANGED lastResp
       ELSE /\ lastResp' = StartBody(startsSinceStop + 1, Null)
            /\ UNCHANGED <<serverProcess, status, exitListener, spawnsSinceStop,
                           lostByExit, mw, mwNth, mwPid>>
    /\ UNCHANGED <<enabled, isServerReady, closed, signalled, wroteMarker, spawnError,
                   exitsSinceStop>>

\* middleware, /__screenshot_start, lines 120-126 after the 1000 ms wait
MwStartRespond(c) ==
    /\ mw[c] = "wait"
    /\ lastResp' = StartBody(mwNth[c], mwPid[c])
    /\ mw' = [mw EXCEPT ![c] = "idle"]
    /\ mwNth' = [mwNth EXCEPT ![c] = 0]
    /\ mwPid' = [mwPid EXCEPT ![c] = Null]
    /\ UNCHANGED <<supVars, histVars>>

\* middleware, /__screenshot_stop, lines 128-133
MwStop(c) ==
    /\ enabled
    /\ StopServer
    /\ lastResp' = [kind |-> "stop", stopped |-> TRUE]
    /\ UNCHANGED <<enabled, closed, status, wroteMarker, spawnError, mw, mwNth, mwPid>>

\* ------------------------------------------------- supervisor with clients
\* a client's GET /__screenshot_start reaches the middleware
StartRequest(c) ==
    /\ UNCHANGED capVars
    /\ ~closed
    /\ MwStart(c)
    /\ lastOp' = "start"
    /\ UNCHANGED orchVars

StartRespond(c) ==
    /\ UNCHANGED capVars
    /\ MwStartRespond(c)
    /\ lastOp' = "startRespond"
    /\ UNCHANGED orchVars

\* a client's GET /__screenshot_stop reaches the middleware
StopRequest(c) ==
    /\ UNCHANGED capVars
    /\ ~closed
    /\ MwStop(c)
    /\ lastOp' = "stop"
    /\ UNCHANGED orchVars

\* configureServer, lines 102-103: with enabled = false no middleware is
\* registered, so a control request is not answered by the plugin
Unhandled(c) ==
    /\ UNCHANGED capVars
    /\ ~enabled
    /\ ~closed
    /\ lastOp' = "unhandled"
    /\ UNCHANGED <<supVars, mwVars, histVars, orchVars>>

\* plugin.ts buildEnd, lines 138-140
BuildEnd ==
    /\ UNCHANGED capVars
    /\ ~closed
    /\ closed' = TRUE
    /\ StopServer
    /\ lastOp' = "buildEnd"
    /\ UNCHANGED <<enabled, status, wroteMarker, spawnError, mwVars, orchVars>>

\* a stdout listener whose marker test never matches
ChildStdoutNoReady(p) ==
    /\ UNCHANGED capVars
    /\ status[p] \in {"running", "exited"}
    /\ ~spawnError[p]
    /\ ~wroteMarker[p]
    /\ wroteMarker' = [wroteMarker EXCEPT ![p] = TRUE]
    /\ lastOp' = "stdout"
    /\ UNCHANGED <<enabled, serverProcess, isServerReady, closed, status, signalled,
                   exitListener, spawnError, mwVars, histVars, orchVars>>

\* stdout 'data' listener, lines 63-69; it is never detached, and the stream
\* can still deliver buffered output after the 'exit' event
ChildStdout(p) ==
    /\ UNCHANGED capVars
    /\ status[p] \in {"running", "exited"}
    /\ ~spawnError[p]
    /\ ~wroteMarker[p]
    /\ wroteMarker' = [wroteMarker EXCEPT ![p] = TRUE]
    /\ isServerReady' = TRUE
    /\ lastOp' = "stdout"
    /\ UNCHANGED <<enabled, serverProcess, closed, status, signalled, exitListener, spawnError,
                   mwVars, histVars, orchVars>>

\* 'error' listener, lines 75-77: the spawn failed; only logged
ChildError(p) ==
    /\ UNCHANGED capVars
    /\ status[p] = "running"
    /\ ~wroteMarker[p]
    /\ ~signalled[p]
    /\ status' = [status EXCEPT ![p] = "failed"]
    /\ spawnError' = [spawnError EXCEPT ![p] = TRUE]
    /\ lastOp' = "error"
    /\ UNCHANGED <<enabled, serverProcess, isServerReady, closed, signalled,
                   exitListener, wroteMarker, mwVars, histVars, orchVars>>

\* an exit listener that only logs and keeps the handle of the dead child
ChildExitKeepsHandle(p) ==
    /\ UNCHANGED capVars
    /\ status[p] \in {"running", "failed"}
    /\ status' = [status EXCEPT ![p] = "exited"]
    /\ IF exitListener[p] = "reset"
       THEN /\ isServerReady' = FALSE
            /\ exitsSinceStop' = exitsSinceStop + 1
            /\ UNCHANGED <<serverProcess, lostByExit>>
       ELSE UNCHANGED <<serverProcess, isServerReady, exitsSinceStop, lostByExit>>
    /\ lastOp' = "exit"
    /\ UNCHANGED <<enabled, closed, signalled, exitListener, wroteMarker, spawnError,
                   mwVars, spawnsSinceStop, startsSinceStop, orchVars>>

\* 'exit' listeners: lines 79-83 while tracked, lines 89-91 after stopServer
ChildExit(p) ==
    /\ UNCHANGED capVars
    /\ status[p] \in {"running", "failed"}
    /\ status' = [status EXCEPT ![p] = "exited"]
    /\ IF exitListener[p] = "reset"
       THEN /\ serverProcess' = Null
            /\ isServerReady' = FALSE
            /\ exitsSinceStop' = exitsSinceStop + 1
            /\ lostByExit' = TRUE
       ELSE UNCHANGED <<serverProcess, isServerReady, exitsSinceStop, lostByExit>>
    /\ lastOp' = "exit"
    /\ UNCHANGED <<enabled, closed, signalled, exitListener, wroteMarker, spawnError,
                   mwVars, spawnsSinceStop, startsSinceStop, orchVars>>

ChildStep ==
    \E p \in Pids : ChildStdout(p) \/ ChildError(p) \/ ChildExit(p)

\* state after screenshotPlugin(options) and configureServer, lines 42-46, 102-111,
\* and of a page whose hook has not been called
InitSup ==
    /\ enabled \in BOOLEAN
    /\ serverProcess = Null
    /\ isServerReady = FALSE
    /\ closed = FALSE
    /\ status = [p \in Pids |-> "unspawned"]
    /\ signalled = [p \in Pids |-> FALSE]
    /\ exitListener = [p \in Pids |-> "none"]
    /\ wroteMarker = [p \in Pids |-> FALSE]
    /\ spawnError = [p \in Pids |-> FALSE]
    /\ mw = [c \in Callers |-> "idle"]
    /\ mwNth = [c \in Callers |-> 0]
    /\ mwPid = [c \in Callers |-> Null]
    /\ lastResp = NoResp
    /\ spawnsSinceStop = 0
    /\ startsSinceStop = 0
    /\ exitsSinceStop = 0
    /\ lostByExit = FALSE
    /\ lastOp = "init"
    /\ orch = [c \in Callers |-> Fresh]
    /\ invocations = [c \in Callers |-> 0]

\* no capture request has been built or received
Absent == [absent |-> TRUE]
\* a value that is present (a field that is not undefined)
Some(v) == [some |-> v]
NoInput == [kind |-> "none"]
NoRequest == [kind |-> "none"]
SrvIdle == [pc |-> "idle", browserOpen |-> FALSE, launched |-> 0,
            trace |-> <<>>, responses |-> <<>>, threw |-> FALSE, sentTo |-> Null]
\* the two versions of the in-page hook: client/hooks/useScreenshot.ts renders
\* an element through an SVG foreignObject, unnamed/part_001 through html2canvas
Variants == {"svg", "html2canvas"}
\* useScreenshot before takeScreenshot is called (useState(false)), with the
\* callbacks invoked by the current call and how its promise settled
PageIdle(v) ==
    [variant |-> v, pc |-> "idle", element |-> "none", isTakingScreenshot |-> FALSE,
     pending |-> FALSE, calls |-> <<>>, settled |-> "none", n |-> 0]

Init ==
    /\ InitSup
    /\ input = NoInput
    /\ request = NoRequest
    /\ srv = SrvIdle
    /\ page = PageIdle("html2canvas")
    /\ port = DefaultPort

Next ==
    \/ \E c \in Callers : StartRequest(c)
    \/ \E c \in Callers : StartRespond(c)
    \/ \E c \in Callers : StopRequest(c)
    \/ \E c \in Callers : Unhandled(c)
    \/ BuildEnd
    \/ ChildStep

Spec == Init /\ [][Next]_vars

\* ------------------------------------- useScreenshotPlaywright.takeScreenshot
Solo == "c1"
CaptureOutcomes == {"ok", "badBody", "notOk", "netFail"}

Set(c, r) == orch' = [orch EXCEPT ![c] = r]
\* control reaches the catch block, part_000 line 222
ToCatch(r) == [r EXCEPT !.pc = "catch"]
\* the invocation's promise settles
Settle(r, how) == [r EXCEPT !.pc = "done", !.outcome = how]
\* fetch('/__screenshot_stop') is issued, lines 215 and 232
IssueStop(r, next) ==
    [r EXCEPT !.pc = next, !.nStopReq = @ + 1,
              !.stopBeforeStart = @ \/ r.nStartReq = 0]
\* options.onEnd(arg), lines 218 and 238
CallOnEnd(r, arg) == [r EXCEPT !.nEnd = @ + 1, !.endArgs = @ \cup {arg}]

\* lines 114-115: setIsTakingScreenshot(true); options.onStart()
Invoke(c, throws) ==
    /\ UNCHANGED capVars
    /\ orch[c].pc \in {"idle", "done"}
    /\ invocations[c] < MaxInvocations
    /\ invocations' = [invocations EXCEPT ![c] = @ + 1]
    /\ LET r == [Fresh EXCEPT !.isTakingScreenshot = TRUE]
       IN  Set(c, IF throws THEN Settle(r, "rejected") ELSE [r EXCEPT !.pc = "debounce"])
    /\ lastOp' = "invoke"
    /\ UNCHANGED <<supVars, mwVars, histVars>>

\* lines 117-121: after the 100 ms delay, fetch('/__screenshot_start') is issued
SendStart(c) ==
    /\ UNCHANGED capVars
    /\ orch[c].pc = "debounce"
    /\ Set(c, [orch[c] EXCEPT !.pc = "startSent", !.nStartReq = @ + 1])
    /\ lastOp' = "sendStart"
    /\ UNCHANGED <<supVars, mwVars, histVars, invocations>>

\* the start request reaches the middleware (plugin.ts lines 114-126)
StartDelivered(c) ==
    /\ UNCHANGED capVars
    /\ orch[c].pc = "startSent"
    /\ ~closed
    /\ MwStart(c)
    /\ Set(c, IF mw'[c] = "wait"
              THEN [orch[c] EXCEPT !.pc = "startWait"]
              ELSE [orch[c] EXCEPT !.pc = "startResp", !.startData = lastResp',
                                   !.usedPid = serverProcess'])
    /\ lastOp' = "start"
    /\ UNCHANGED invocations

\* the middleware answers after its wait (plugin.ts lines 120-126)
StartAnswered(c) ==
    /\ UNCHANGED capVars
    /\ orch[c].pc = "startWait"
    /\ MwStartRespond(c)
    /\ Set(c, [orch[c] EXCEPT !.pc = "startResp", !.startData = lastResp',
                              !.usedPid = serverProcess'])
    /\ lastOp' = "startRespond"
    /\ UNCHANGED invocations

\* a start step whose failure is swallowed and followed by the capture
StartReturnIgnoresFailure(c, ok) ==
    /\ UNCHANGED capVars
    /\ orch[c].pc = "startResp"
    /\ Set(c, IF ~ok \/ ~orch[c].startData.started
              THEN [orch[c] EXCEPT !.pc = "collect", !.startOutcome = "failed"]
              ELSE IF ~orch[c].startData.ready
                   THEN [orch[c] EXCEPT !.pc = "settle", !.startOutcome = "received"]
                   ELSE [orch[c] EXCEPT !.pc = "collect", !.startOutcome = "received"])
    /\ lastOp' = "startReturn"
    /\ UNCHANGED <<supVars, mwVars, histVars, invocations>>

\* lines 121-131: the start response is read; ok = FALSE is a rejected fetch
\* or an unparsable body
StartReturn(c, ok) ==
    /\ UNCHANGED capVars
    /\ orch[c].pc = "startResp"
    /\ Set(c, IF ~ok \/ ~orch[c].startData.started
              THEN ToCatch([orch[c] EXCEPT !.startOutcome = "failed"])
              ELSE IF ~orch[c].startData.ready
                   THEN [orch[c] EXCEPT !.pc = "settle", !.startOutcome = "received"]
                   ELSE [orch[c] EXCEPT !.pc = "collect", !.startOutcome = "received"])
    /\ lastOp' = "startReturn"
    /\ UNCHANGED <<supVars, mwVars, histVars, invocations>>

\* a start step that is sent again when it fails
StartFailRetries(c) ==
    /\ UNCHANGED capVars
    /\ orch[c].pc = "startSent"
    /\ Set(c, IF orch[c].nStartReq < 2
              THEN [orch[c] EXCEPT !.nStartReq = @ + 1]
              ELSE ToCatch([orch[c] EXCEPT !.startOutcome = "failed"]))
    /\ lastOp' = "startFail"
    /\ UNCHANGED <<supVars, mwVars, histVars, invocations>>

\* line 121 rejects before the request reaches the middleware (network error,
\* or no middleware installed so the answer is not the JSON body)
StartFail(c) ==
    /\ UNCHANGED capVars
    /\ orch[c].pc = "startSent"
    /\ Set(c, ToCatch([orch[c] EXCEPT !.startOutcome = "failed"]))
    /\ lastOp' = "startFail"
    /\ UNCHANGED <<supVars, mwVars, histVars, invocations>>

\* a settle delay followed by another start request to read readiness again
SettleDelayPolls(c) ==
    /\ UNCHANGED capVars
    /\ orch[c].pc = "settle"
    /\ Set(c, IF orch[c].nStartReq < 2
              THEN [orch[c] EXCEPT !.pc = "startSent", !.nSettle = @ + 1, !.nStartReq = @ + 1]
              ELSE [orch[c] EXCEPT !.pc = "collect", !.nSettle = @ + 1])
    /\ lastOp' = "settle"
    /\ UNCHANGED <<supVars, mwVars, histVars, invocations>>

\* line 130: the 2000 ms settle delay elapses
SettleDelay(c) ==
    /\ UNCHANGED capVars
    /\ orch[c].pc = "settle"
    /\ Set(c, [orch[c] EXCEPT !.pc = "collect", !.nSettle = @ + 1])
    /\ lastOp' = "settle"
    /\ UNCHANGED <<supVars, mwVars, histVars, invocations>>

\* lines 133-207: options, selector and session snapshot are collected and
\* the capture request is issued; throws = the collection raised
Collect(c, throws) ==
    /\ UNCHANGED capVars
    /\ orch[c].pc = "collect"
    /\ Set(c, IF throws
              THEN ToCatch(orch[c])
              ELSE [orch[c] EXCEPT !.pc = "captureSent", !.nCaptureReq = @ + 1])
    /\ lastOp' = "collect"
    /\ UNCHANGED <<supVars, mwVars, histVars, invocations>>

\* lines 194-221: the capture fetch settles
CaptureReturn(c, o) ==
    /\ UNCHANGED capVars
    /\ orch[c].pc = "captureSent"
    /\ Set(c, CASE o = "ok"      -> [orch[c] EXCEPT !.pc = "success", !.gotResponse = TRUE]
                [] o = "badBody" -> ToCatch([orch[c] EXCEPT !.gotResponse = TRUE])
                [] o = "notOk"   -> ToCatch([orch[c] EXCEPT !.gotResponse = TRUE])
                [] OTHER         -> ToCatch(orch[c]))
    /\ lastOp' = "captureReturn"
    /\ UNCHANGED <<supVars, mwVars, histVars, invocations>>

\* lines 211-215: options.onSuccess(result), then the stop request is issued
CallOnSuccess(c, throws) ==
    /\ UNCHANGED capVars
    /\ orch[c].pc = "success"
    /\ LET r == [orch[c] EXCEPT !.nSuccess = @ + 1]
       IN  Set(c, IF throws THEN ToCatch(r) ELSE IssueStop(r, "stopSentA"))
    /\ lastOp' = "onSuccess"
    /\ UNCHANGED <<supVars, mwVars, histVars, invocations>>

\* lines 223-232: options.onError(screenshotError), then the stop request
CallOnError(c, throws) ==
    /\ UNCHANGED capVars
    /\ orch[c].pc = "catch"
    /\ LET r == [orch[c] EXCEPT !.nError = @ + 1]
       IN  Set(c, IF throws THEN Settle(r, "rejected") ELSE IssueStop(r, "stopSentB"))
    /\ lastOp' = "onError"
    /\ UNCHANGED <<supVars, mwVars, histVars, invocations>>

\* a stop request reaches the middleware (plugin.ts lines 128-133)
StopDelivered(c) ==
    /\ UNCHANGED capVars
    /\ orch[c].pc \in {"stopSentA", "stopSentB"}
    /\ ~closed
    /\ MwStop(c)
    /\ Set(c, [orch[c] EXCEPT !.pc = IF @ = "stopSentA" THEN "stopRespA" ELSE "stopRespB"])
    /\ lastOp' = "stop"
    /\ UNCHANGED invocations

\* lines 215-218: the stop response arrives on the success path
StopReturnA(c, throws) ==
    /\ UNCHANGED capVars
    /\ orch[c].pc = "stopRespA"
    /\ LET r == CallOnEnd([orch[c] EXCEPT !.isTakingScreenshot = FALSE], "success")
       IN  Set(c, IF throws THEN ToCatch(r) ELSE Settle(r, "fulfilled"))
    /\ lastOp' = "stopReturnA"
    /\ UNCHANGED <<supVars, mwVars, histVars, invocations>>

\* line 215 rejects: the stop request or its response is lost
StopFailA(c) ==
    /\ UNCHANGED capVars
    /\ orch[c].pc \in {"stopSentA", "stopRespA"}
    /\ Set(c, ToCatch(orch[c]))
    /\ lastOp' = "stopFailA"
    /\ UNCHANGED <<supVars, mwVars, histVars, invocations>>

\* lines 231-238: the stop fetch of the catch block settles (a rejection is
\* only logged), then setIsTakingScreenshot(false) and options.onEnd(error)
StopSettleB(c, throws) ==
    /\ UNCHANGED capVars
    /\ orch[c].pc \in {"stopSentB", "stopRespB"}
    /\ LET r == CallOnEnd([orch[c] EXCEPT !.isTakingScreenshot = FALSE], "error")
       IN  Set(c, Settle(r, IF throws THEN "rejected" ELSE "fulfilled"))
    /\ lastOp' = "stopSettleB"
    /\ UNCHANGED <<supVars, mwVars, histVars, invocations>>

OrchStep(c) ==
    \/ \E t \in BOOLEAN : Invoke(c, t)
    \/ SendStart(c)
    \/ StartDelivered(c)
    \/ StartAnswered(c)
    \/ \E ok \in BOOLEAN : StartReturn(c, ok)
    \/ StartFail(c)
    \/ SettleDelay(c)
    \/ \E t \in BOOLEAN : Collect(c, t)
    \/ \E o \in CaptureOutcomes : CaptureReturn(c, o)
    \/ \E t \in BOOLEAN : CallOnSuccess(c, t)
    \/ \E t \in BOOLEAN : CallOnError(c, t)
    \/ StopDelivered(c)
    \/ \E t \in BOOLEAN : StopReturnA(c, t)
    \/ StopFailA(c)
    \/ \E t \in BOOLEAN : StopSettleB(c, t)

\* one page driving the supervisor through the hook
NextSolo ==
    \/ OrchStep(Solo)
    \/ BuildEnd
    \/ ChildStep

SpecSolo == Init /\ [][NextSolo]_vars

\* two pages on one supervisor, each calling takeScreenshot of its own hook
\* once (the two invocations that may overlap), with callbacks that return
\* and control requests that are delivered
DuoStep(c) ==
    /\ \/ Invoke(c, FALSE)
       \/ SendStart(c)
       \/ StartDelivered(c)
       \/ StartAnswered(c)
       \/ StartReturn(c, TRUE)
       \/ SettleDelay(c)
       \/ Collect(c, FALSE)
       \/ \E o \in {"ok", "netFail"} : CaptureReturn(c, o)
       \/ CallOnSuccess(c, FALSE)
       \/ CallOnError(c, FALSE)
       \/ StopDelivered(c)
       \/ StopReturnA(c, FALSE)
       \/ StopSettleB(c, FALSE)
    /\ invocations'[c] <= 1

NextDuo ==
    \/ \E c \in Callers : DuoStep(c)
    \/ BuildEnd
    \/ ChildStep

SpecDuo == Init /\ [][NextDuo]_vars

\* ---------------------------------------- building the capture request
\* strings are sequences of one-character strings
MaxClassLen == 3
ClassChars == {"a", "b", " "}
Space == " "

RECURSIVE SplitFrom(_, _, _, _)
SplitFrom(s, d, i, cur) ==
    IF i > Len(s) THEN <<cur>>
    ELSE IF s[i] = d THEN <<cur>> \o SplitFrom(s, d, i + 1, <<>>)
    ELSE SplitFrom(s, d, i + 1, Append(cur, s[i]))
\* String.prototype.split with a one-character separator
Split(s, d) == SplitFrom(s, d, 1, <<>>)

RECURSIVE TrimStart(_)
TrimStart(s) == IF s # <<>> /\ Head(s) = Space THEN TrimStart(Tail(s)) ELSE s
RECURSIVE TrimEnd(_)
TrimEnd(s) ==
    IF s # <<>> /\ s[Len(s)] = Space THEN TrimEnd(SubSeq(s, 1, Len(s) - 1)) ELSE s
\* String.prototype.trim
Trim(s) == TrimEnd(TrimStart(s))

\* String.prototype.toLowerCase on the letters that occur in tag names
LowerChar(ch) ==
    CASE ch = "D" -> "d" [] ch = "I" -> "i" [] ch = "V" -> "v" [] ch = "P" -> "p"
      [] OTHER -> ch
ToLowerCase(s) == [i \in 1..Len(s) |-> LowerChar(s[i])]

\* part_000 lines 141-152
DeriveSelector(el) ==
    IF el = Absent THEN Absent
    ELSE IF el.id # <<>> THEN Some(<<"#">> \o el.id)
    ELSE IF el.className # <<>> THEN Some(<<".">> \o Split(el.className, Space)[1])
    ELSE Some(ToLowerCase(el.tagName))

\* `flag || true` in place of `flag ?? true`
CopyFlagOr(v) == TRUE

\* part_000 lines 136-138: screenshotOptions?.copyX ?? true
CopyFlag(v) == IF v = "unset" THEN TRUE ELSE v = "true"

\* part_000 lines 157-165: document.cookie parsed into cookie records
ParseCookie(c) ==
    LET parts == Split(Trim(c), "=")
    IN  [name |-> parts[1],
         value |-> IF Len(parts) >= 2 THEN Some(parts[2]) ELSE Absent,
         domain |-> "hostname", path |-> "/"]
CollectCookies(doc) ==
    LET pieces == SelectSeq(Split(doc, ";"), LAMBDA c : Trim(c) # <<>>)
    IN  [i \in 1..Len(pieces) |-> ParseCookie(pieces[i])]

\* part_000 lines 171-177 and 183-189: a storage area (a set of <<key, value>>
\* entries with distinct keys) copied into a plain object
CollectStorage(area) == {e \in area : e[1] # ""}

\* part_000 lines 133-207: the body given to JSON.stringify; a field holding
\* Absent is undefined and is not sent
BuildBody(in) ==
    [kind |-> "capture",
     selector |-> DeriveSelector(in.element),
     url |-> in.url,
     cookies |-> IF CopyFlag(in.copyCookies)
                 THEN Some(CollectCookies(in.cookie)) ELSE Absent,
     localStorage |-> IF CopyFlag(in.copyLocalStorage)
                      THEN Some(CollectStorage(in.localStorage)) ELSE Absent,
     sessionStorage |-> IF CopyFlag(in.copySessionStorage)
                        THEN Some(CollectStorage(in.sessionStorage)) ELSE Absent]

\* bounded inputs
RECURSIVE StringsUpTo(_, _)
StringsUpTo(chars, n) ==
    IF n = 0 THEN {<<>>}
    ELSE LET shorter == StringsUpTo(chars, n - 1)
         IN  shorter \cup {Append(t, ch) : t \in shorter, ch \in chars}
ClassNames == StringsUpTo(ClassChars, MaxClassLen)
Ids == {<<>>, <<"x">>}
TagNames == {<<"D", "I", "V">>, <<"P">>}
Elements == [id : Ids, className : ClassNames, tagName : TagNames]
FlagValues == {"unset", "true", "false"}
CookieStrings ==
    {<<>>, <<"a", "=", "1">>, <<"a", "=", "1", ";", " ", "b", "=", "2">>,
     <<"t", "=", "x", "=", "=">>}
StorageAreas == {{}, {<<"k", "v">>}, {<<"", "v">>, <<"k", "">>}}
\* options.serverUrl of the hook: not given, or the capture URL on some port
ServerUrls == {Absent} \cup {Some(p) : p \in Ports}
DefaultInput ==
    [kind |-> "page", element |-> Absent, url |-> "page",
     copyCookies |-> "unset", copyLocalStorage |-> "unset",
     copySessionStorage |-> "unset",
     cookie |-> <<"a", "=", "1">>, localStorage |-> {<<"k", "v">>},
     sessionStorage |-> {}, serverUrl |-> Absent]
Inputs ==
    {[DefaultInput EXCEPT !.element = e] : e \in Elements}
    \cup {[DefaultInput EXCEPT !.copyCookies = fc, !.copyLocalStorage = fl,
                               !.copySessionStorage = fs, !.cookie = ck,
                               !.localStorage = ls, !.sessionStorage = ss] :
            fc \in FlagValues, fl \in FlagValues, fs \in FlagValues,
            ck \in CookieStrings, ls \in StorageAreas, ss \in StorageAreas}
    \cup {[DefaultInput EXCEPT !.serverUrl = u] : u \in ServerUrls}

\* part_000 line 193: options?.serverUrl || 'http://localhost:3001/screenshot'
ServerUrlPort(in) ==
    IF in.serverUrl = Absent THEN HookDefaultPort ELSE in.serverUrl.some

\* part_000 lines 133-207: the request is built and posted
PostCapture ==
    /\ input # NoInput
    /\ request = NoRequest
    /\ request' = BuildBody(input)
    /\ srv' = [srv EXCEPT !.pc = "launch", !.sentTo = ServerUrlPort(input)]
    /\ lastOp' = "postCapture"
    /\ UNCHANGED <<supVars, mwVars, histVars, orchVars, input, page, port>>

\* ------------------------------------ screenshot-server.ts, POST /screenshot
SrvFrame == UNCHANGED <<supVars, mwVars, histVars, orchVars, input, request, page, port>>
\* an awaited step throws: control reaches the catch block, line 94
Throw(r) == [r EXCEPT !.pc = "catch", !.threw = TRUE]
\* an awaited step completes
Did(r, step, next) == [r EXCEPT !.pc = next, !.trace = Append(@, step)]

\* lines 22-26: chromium.launch
Launch(throws) ==
    /\ srv.pc = "launch"
    /\ srv.sentTo = port
    /\ srv' = IF throws THEN Throw(srv)
              ELSE [Did(srv, "launch", "context") EXCEPT !.browserOpen = TRUE,
                                                         !.launched = @ + 1]
    /\ lastOp' = "launch"
    /\ SrvFrame

\* lines 28-34: browser.newContext
NewContext(throws) ==
    /\ srv.pc = "context"
    /\ srv' = IF throws THEN Throw(srv) ELSE Did(srv, "newContext", "cookies")
    /\ lastOp' = "newContext"
    /\ SrvFrame

\* lines 36-39: context.addCookies when cookies were supplied
AddCookies(throws) ==
    /\ srv.pc = "cookies"
    /\ IF request.cookies # Absent /\ Len(request.cookies.some) > 0
       THEN srv' = IF throws THEN Throw(srv) ELSE Did(srv, "addCookies", "page")
       ELSE ~throws /\ srv' = [srv EXCEPT !.pc = "page"]
    /\ lastOp' = "addCookies"
    /\ SrvFrame

\* line 41: context.newPage
NewPage(throws) ==
    /\ srv.pc = "page"
    /\ srv' = IF throws THEN Throw(srv) ELSE Did(srv, "newPage", "origin")
    /\ lastOp' = "newPage"
    /\ SrvFrame

\* a handler that goes from the origin straight to the target URL
GotoOriginThenTarget(throws) ==
    /\ srv.pc = "origin"
    /\ srv' = IF throws THEN Throw(srv) ELSE Did(srv, "gotoOrigin", "target")
    /\ lastOp' = "gotoOrigin"
    /\ SrvFrame

\* lines 44-45: page.goto(origin of the target URL)
GotoOrigin(throws) ==
    /\ srv.pc = "origin"
    /\ srv' = IF throws THEN Throw(srv) ELSE Did(srv, "gotoOrigin", "local")
    /\ lastOp' = "gotoOrigin"
    /\ SrvFrame

\* lines 48-54: localStorage entries written when supplied
SetLocalStorage(throws) ==
    /\ srv.pc = "local"
    /\ IF request.localStorage # Absent
       THEN srv' = IF throws THEN Throw(srv) ELSE Did(srv, "setLocalStorage", "session")
       ELSE ~throws /\ srv' = [srv EXCEPT !.pc = "session"]
    /\ lastOp' = "setLocalStorage"
    /\ SrvFrame

\* lines 56-62: sessionStorage entries written when supplied
SetSessionStorage(throws) ==
    /\ srv.pc = "session"
    /\ IF request.sessionStorage # Absent
       THEN srv' = IF throws THEN Throw(srv) ELSE Did(srv, "setSessionStorage", "target")
       ELSE ~throws /\ srv' = [srv EXCEPT !.pc = "target"]
    /\ lastOp' = "setSessionStorage"
    /\ SrvFrame

\* lines 65-68: page.goto(target URL), then the settle wait
GotoTarget(throws) ==
    /\ srv.pc = "target"
    /\ srv' = IF throws THEN Throw(srv) ELSE Did(srv, "gotoTarget", "capture")
    /\ lastOp' = "gotoTarget"
    /\ SrvFrame

\* lines 70-88: element or viewport screenshot written to the output file
Capture(throws) ==
    /\ srv.pc = "capture"
    /\ srv' = IF throws THEN Throw(srv) ELSE Did(srv, "capture", "close")
    /\ lastOp' = "capture"
    /\ SrvFrame

\* line 90: browser.close
CloseBrowser(throws) ==
    /\ srv.pc = "close"
    /\ srv' = IF throws THEN Throw(srv)
              ELSE [Did(srv, "close", "respond") EXCEPT !.browserOpen = FALSE]
    /\ lastOp' = "close"
    /\ SrvFrame

\* lines 92-93: res.json({ success: true, path })
RespondSuccess ==
    /\ srv.pc = "respond"
    /\ srv' = [srv EXCEPT !.pc = "done",
                          !.responses = Append(@, [status |-> 200, success |-> TRUE])]
    /\ lastOp' = "respondSuccess"
    /\ SrvFrame

\* a catch block that forgets res.status(500)
RespondFailureStatusOk ==
    /\ srv.pc = "catch"
    /\ srv' = [srv EXCEPT !.pc = "done",
                          !.responses = Append(@, [status |-> 200, success |-> FALSE])]
    /\ lastOp' = "respondFailure"
    /\ SrvFrame

\* lines 94-97: res.status(500).json({ success: false, error })
RespondFailure ==
    /\ srv.pc = "catch"
    /\ srv' = [srv EXCEPT !.pc = "done",
                          !.responses = Append(@, [status |-> 500, success |-> FALSE])]
    /\ lastOp' = "respondFailure"
    /\ SrvFrame

ServerStep ==
    \/ \E t \in BOOLEAN : Launch(t)
    \/ \E t \in BOOLEAN : NewContext(t)
    \/ \E t \in BOOLEAN : AddCookies(t)
    \/ \E t \in BOOLEAN : NewPage(t)
    \/ \E t \in BOOLEAN : GotoOrigin(t)
    \/ \E t \in BOOLEAN : SetLocalStorage(t)
    \/ \E t \in BOOLEAN : SetSessionStorage(t)
    \/ \E t \in BOOLEAN : GotoTarget(t)
    \/ \E t \in BOOLEAN : Capture(t)
    \/ \E t \in BOOLEAN : CloseBrowser(t)
    \/ RespondSuccess
    \/ RespondFailure

\* one capture request, from the page that builds it to the server's response
InitCap ==
    /\ InitSup
    /\ enabled
    /\ input \in Inputs
    /\ request = NoRequest
    /\ srv = SrvIdle
    /\ page = PageIdle("html2canvas")
    /\ port \in Ports

NextCap ==
    \/ PostCapture
    \/ ServerStep

SpecCap == InitCap /\ [][NextCap]_vars

\* ---------------------------------------- useScreenshot.takeScreenshot
\* (client/hooks/useScreenshot.ts lines 51-181, unnamed/part_001 lines 60-181)
MaxPageCalls == 2

\* screenshotOptions.element: omitted, an HTMLElement, or (part_001) a CSS
\* selector that does or does not match
PageElements == {"none", "element", "selectorFound", "selectorMissing"}
\* what the canvas yields: a blob, a null blob, or no 2d context
BlobOutcomes == {"blob", "null", "noctx"}

PageFrame == UNCHANGED <<supVars, mwVars, histVars, orchVars, input, request, srv, port>>
\* options.<cb>(arg); arg is "file" for { path: filename }, "fixed" for
\* { path: 'screenshot.png' }, "error" for the ScreenshotError
Call(r, cb, arg) == [r EXCEPT !.calls = Append(@, [cb |-> cb, arg |-> arg])]
\* the promise returned by takeScreenshot settles
PageSettle(r, how) == [r EXCEPT !.pc = "done", !.settled = how]

\* setIsTakingScreenshot(true); options.onStart() -- outside the try block
TakeScreenshot(el, throws) ==
    /\ page.pc \in {"idle", "done"}
    /\ ~page.pending
    /\ page.n < MaxPageCalls
    /\ LET r == Call([page EXCEPT !.isTakingScreenshot = TRUE, !.element = el,
                                  !.calls = <<>>, !.settled = "none", !.n = @ + 1],
                     "onStart", "none")
       IN  page' = IF throws THEN PageSettle(r, "rejected")
                   ELSE [r EXCEPT !.pc = "debounce"]
    /\ lastOp' = "takeScreenshot"
    /\ PageFrame

\* after the 100 ms delay the element option selects the path; part_001
\* lines 67-90 resolve a selector string first, useScreenshot.ts lines 58-62
\* take any truthy value as an element and fail on a string
ResolveElement ==
    /\ page.pc = "debounce"
    /\ page' = [page EXCEPT !.pc =
                   CASE page.element = "none" -> "display"
                     [] page.element = "element" -> "render"
                     [] page.element = "selectorFound" ->
                            IF page.variant = "html2canvas" THEN "render" ELSE "catch"
                     [] OTHER -> "catch"]
    /\ lastOp' = "resolveElement"
    /\ PageFrame

\* element path: the element is rendered (html2canvas awaited, part_001
\* lines 94-101; SVG image built, useScreenshot.ts lines 62-116) and the blob
\* callback is left pending; takeScreenshot returns
RenderElement(throws) ==
    /\ page.pc = "render"
    /\ page' = IF throws THEN [page EXCEPT !.pc = "catch"]
               ELSE PageSettle([page EXCEPT !.pending = TRUE], "fulfilled")
    /\ lastOp' = "renderElement"
    /\ PageFrame

\* element path: the pending canvas callback runs (part_001 lines 101-116,
\* useScreenshot.ts lines 87-115); throws = options.onEnd throws
ElementBlob(o, throws) ==
    /\ page.pending
    /\ o = "noctx" => page.variant = "svg"
    /\ throws => o = "blob"
    /\ LET r == [page EXCEPT !.pending = FALSE]
       IN  page' = CASE o = "blob" ->
                          IF throws THEN Call(r, "onEnd", "file")
                          ELSE [Call(Call(r, "onEnd", "file"), "onSuccess", "file")
                                   EXCEPT !.isTakingScreenshot = FALSE]
                     [] o = "null" -> [r EXCEPT !.isTakingScreenshot = FALSE]
                     [] OTHER -> r
    /\ lastOp' = "elementBlob"
    /\ PageFrame

\* full-page path: navigator.mediaDevices.getDisplayMedia settles
GetDisplayMedia(ok) ==
    /\ page.pc = "display"
    /\ page' = [page EXCEPT !.pc = IF ok THEN "video" ELSE "catch"]
    /\ lastOp' = "getDisplayMedia"
    /\ PageFrame

\* full-page path: video.onloadedmetadata and its canvas callback; throws =
\* options.onSuccess throws inside the callback, so resolve() is never called
VideoFrame(o, throws) ==
    /\ page.pc = "video"
    /\ throws => o = "blob"
    /\ page' = CASE o = "blob" ->
                      [Call(page, "onSuccess", "file")
                          EXCEPT !.pc = IF throws THEN "hung" ELSE "pageEnd"]
                 [] OTHER -> [page EXCEPT !.pc = "pageEnd"]
    /\ lastOp' = "videoFrame"
    /\ PageFrame

\* full-page path after the await: setIsTakingScreenshot(false) and
\* options.onEnd({ path: 'screenshot.png' }), still inside the try block
PageEnd(throws) ==
    /\ page.pc = "pageEnd"
    /\ LET r == Call([page EXCEPT !.isTakingScreenshot = FALSE], "onEnd", "fixed")
       IN  page' = IF throws THEN [r EXCEPT !.pc = "catch"]
                   ELSE PageSettle(r, "fulfilled")
    /\ lastOp' = "pageEnd"
    /\ PageFrame

\* catch block: options.onError(e); setIsTakingScreenshot(false); options.onEnd(e)
PageCatch(errThrows, endThrows) ==
    /\ page.pc = "catch"
    /\ endThrows => ~errThrows
    /\ LET r == Call(page, "onError", "error")
       IN  page' = IF errThrows THEN PageSettle(r, "rejected")
                   ELSE PageSettle(Call([r EXCEPT !.isTakingScreenshot = FALSE],
                                        "onEnd", "error"),
                                   IF endThrows THEN "rejected" ELSE "fulfilled")
    /\ lastOp' = "pageCatch"
    /\ PageFrame

\* a page that uses one of the two versions of the hook
InitPage ==
    /\ InitSup
    /\ input = NoInput
    /\ request = NoRequest
    /\ srv = SrvIdle
    /\ \E v \in Variants : page = PageIdle(v)
    /\ port = DefaultPort

NextPage ==
    \/ \E el \in PageElements, t \in BOOLEAN : TakeScreenshot(el, t)
    \/ ResolveElement
    \/ \E t \in BOOLEAN : RenderElement(t)
    \/ \E o \in BlobOutcomes, t \in BOOLEAN : ElementBlob(o, t)
    \/ \E ok \in BOOLEAN : GetDisplayMedia(ok)
    \/ \E o \in BlobOutcomes, t \in BOOLEAN : VideoFrame(o, t)
    \/ \E t \in BOOLEAN : PageEnd(t)
    \/ \E e, t \in BOOLEAN : PageCatch(e, t)

SpecPage == InitPage /\ [][NextPage]_vars

\* ------------------------------------------------------------------ claims
Done(c) == orch[c].pc = "done"

\* C1: in every reachable state of the supervisor at most one spawned
\* automation process is alive (spawned and not yet exited, a child that was
\* sent the kill signal but has not exited included).
C1_AtMostOneAlive == Cardinality(AliveSet) <= 1

\* C2 as stated: since the last stop, two or more start requests have spawned
\* exactly one process, and the response to the second (or a later) one
\* reports started:true.
C2_TwoStartsOneSpawn ==
    /\ startsSinceStop >= 2 => spawnsSinceStop = 1
    /\ (lastResp.kind = "start" /\ lastResp.nth >= 2) => lastResp.started

\* C2 amended: the same, provided the tracked child has not exited on its own
\* between the start requests.
C2_TwoStartsOneSpawnNoExit ==
    /\ (startsSinceStop >= 2 /\ exitsSinceStop = 0) => spawnsSinceStop = 1
    /\ (lastResp.kind = "start" /\ lastResp.nth >= 2) => lastResp.started

\* the second start request was answered while the first was still inside its
\* post-spawn wait, and one process was spawned
C2_Witness ==
    /\ startsSinceStop = 2
    /\ exitsSinceStop = 0
    /\ spawnsSinceStop = 1
    /\ lastResp.kind = "start" /\ lastResp.nth = 2 /\ lastResp.started
    /\ \E c \in Callers : mw[c] = "wait"

\* C3: an invocation that received a response to its capture request and has
\* finished invoked exactly one of the success and the error callback.
C3_ExactlyOneOutcomeCallback ==
    \A c \in Callers :
        (Done(c) /\ orch[c].gotResponse) =>
            ((orch[c].nSuccess >= 1) # (orch[c].nError >= 1))

\* C4: an invocation that received a response to its capture request and has
\* finished invoked the end callback exactly once, with the success value if
\* and only if the success callback was invoked, else with the failure given
\* to the error callback.
C4_EndOnceSameOutcome ==
    \A c \in Callers :
        (Done(c) /\ orch[c].gotResponse) =>
            /\ orch[c].nEnd = 1
            /\ ("success" \in orch[c].endArgs) <=> (orch[c].nSuccess >= 1)
            /\ ("error" \in orch[c].endArgs) <=> (orch[c].nError >= 1)

\* C5: once an invocation has finished, isTakingScreenshot is false.
C5_FlagClearedWhenDone ==
    \A c \in Callers : Done(c) => ~orch[c].isTakingScreenshot

\* C6: a finished invocation issued the stop request at least once, and every
\* stop request was issued after the start request had been issued.
C6_StopAfterStart ==
    \A c \in Callers :
        Done(c) => /\ orch[c].nStopReq >= 1
                   /\ orch[c].nStartReq >= 1
                   /\ ~orch[c].stopBeforeStart

\* C7: with a single caller, after an invocation that sent the capture request
\* has finished, the supervisor tracks no process and no spawned process is
\* still running.
C7_NothingRunningAfterCapture ==
    (Done(Solo) /\ orch[Solo].nCaptureReq >= 1) =>
        (serverProcess = Null /\ AliveSet = {})

\* C8: when the tracked child exits on its own the handle and the readiness
\* flag are cleared, and the next start request spawns a new process.
C8_ExitResetsThenRespawn ==
    [][/\ \A p \in Pids :
              (serverProcess = p /\ status[p] # "exited" /\ status'[p] = "exited")
                  => (serverProcess' = Null /\ ~isServerReady')
       /\ (lostByExit /\ lastOp' = "start")
              => /\ serverProcess = Null
                 /\ serverProcess' \in Unspawned
                 /\ status'[serverProcess'] = "running"]_vars

\* a start request has respawned after the tracked child exited on its own
C8_Witness ==
    /\ lastOp = "start"
    /\ exitsSinceStop >= 1
    /\ spawnsSinceStop = 2
    /\ serverProcess # Null /\ status[serverProcess] = "running"

\* C9: a stop request sends the kill signal to the tracked process and leaves
\* the handle null and readiness false; with no tracked process it changes no
\* supervisor state; either way it answers {stopped: true}.
C9_StopKillsAndClears ==
    [][lastOp' = "stop" =>
          /\ IF serverProcess # Null
             THEN /\ signalled'[serverProcess]
                  /\ serverProcess' = Null
                  /\ ~isServerReady'
             ELSE UNCHANGED supVars
          /\ lastResp' = [kind |-> "stop", stopped |-> TRUE]]_vars

\* a stop request has just terminated a child that had reported readiness
C9_Witness ==
    /\ lastOp = "stop"
    /\ serverProcess = Null /\ ~isServerReady
    /\ lastResp = [kind |-> "stop", stopped |-> TRUE]
    /\ \E p \in Pids : signalled[p] /\ wroteMarker[p] /\ status[p] = "running"

\* C10: the started field of every start response is true if and only if the
\* supervisor tracks a process when the response is written.
C10_StartedIffTracked ==
    lastResp.kind = "start" => (lastResp.started <=> lastResp.tracked)
\* C11: after a failed spawn (the child's error event) the handle is cleared,
\* and the start request that triggered the spawn reports started:false.
C11_SpawnFailureStops ==
    /\ \A p \in Pids : spawnError[p] => serverProcess # p
    /\ (lastResp.kind = "start" /\ lastResp.spawnFailed) => ~lastResp.started

\* C12: a start response reports ready:true only if the process tracked when
\* the response is written has itself written the readiness marker.
C12_ReadyOnlyIfTrackedWrote ==
    (lastResp.kind = "start" /\ lastResp.ready) => lastResp.trackedWrote

\* C13: on a fresh enabled supervisor a start request spawns a process, and
\* every start response written while that process is tracked and has written
\* the readiness marker reports ready:true.
C13_ReadyAfterMarker ==
    /\ []((lastResp.kind = "start" /\ lastResp.trackedWrote) => lastResp.ready)
    /\ [][(lastOp' = "start" /\ Unspawned = Pids)
             => (serverProcess' \in Pids /\ status'[serverProcess'] = "running")]_vars

\* a start response was written after the tracked child wrote the marker
C13_Witness ==
    /\ lastOp \in {"start", "startRespond"}
    /\ lastResp.kind = "start" /\ lastResp.trackedWrote /\ lastResp.ready
    /\ serverProcess # Null /\ wroteMarker[serverProcess]

\* C16: the promise returned by takeScreenshot never rejects.
C16_NeverRejects ==
    \A c \in Callers : orch[c].outcome # "rejected"

\* C17: with enabled = false nothing is ever spawned or signalled and the
\* supervisor stays stopped.
C17_DisabledDoesNothing ==
    ~enabled => /\ Unspawned = Pids
                /\ \A p \in Pids : ~signalled[p]
                /\ serverProcess = Null
                /\ ~isServerReady

\* teardown has just run on a disabled supervisor
C17_Witness ==
    /\ ~enabled
    /\ closed
    /\ lastOp = "buildEnd"
    /\ serverProcess = Null /\ Unspawned = Pids

\* C18: teardown in any state sends the kill signal to the tracked process,
\* if any, and afterwards the handle is null and readiness is false.
C18_TeardownStops ==
    [][lastOp' = "buildEnd" =>
          /\ serverProcess # Null => signalled'[serverProcess]
          /\ serverProcess' = Null
          /\ ~isServerReady']_vars
\* C14: whenever the capture server has sent a response, the browser it
\* launched for that request has been closed.
C14_BrowserClosedBeforeResponse ==
    Len(srv.responses) > 0 => ~srv.browserOpen

\* C15: a capture request gets exactly one response: 200 with success:true
\* when every step succeeded, 500 with success:false when a step threw.
C15_ExactlyOneResponse ==
    /\ Len(srv.responses) <= 1
    /\ srv.pc = "done" =>
          /\ Len(srv.responses) = 1
          /\ IF srv.threw
             THEN srv.responses[1] = [status |-> 500, success |-> FALSE]
             ELSE /\ srv.responses[1] = [status |-> 200, success |-> TRUE]
                  /\ \E i \in 1..Len(srv.trace) : srv.trace[i] = "capture"

\* a request whose navigation failed after the launch was answered with 500
C15_Witness ==
    /\ srv.pc = "done"
    /\ srv.threw
    /\ srv.launched = 1
    /\ srv.responses = <<[status |-> 500, success |-> FALSE]>>

\* C19: the selector sent is '#' + id when the id is non-empty, else '.' + the
\* first class name when the class list is non-empty, else the lowercase tag
\* name; with no element no selector is sent.
C19_SelectorDerivation ==
    request # NoRequest =>
        LET el == input.element
            classList == IF el = Absent THEN <<>>
                         ELSE SelectSeq(Split(el.className, Space), LAMBDA t : t # <<>>)
        IN  request.selector =
                IF el = Absent THEN Absent
                ELSE IF el.id # <<>> THEN Some(<<"#">> \o el.id)
                ELSE IF classList # <<>> THEN Some(<<".">> \o classList[1])
                ELSE Some(ToLowerCase(el.tagName))

\* C20: each snapshot part is in the capture request if and only if its copy
\* flag is not switched off, and with cookies switched off the server injects
\* no cookies.
C20_PartsFollowFlags ==
    request # NoRequest =>
        /\ (request.cookies # Absent) <=> (input.copyCookies # "false")
        /\ (request.localStorage # Absent) <=> (input.copyLocalStorage # "false")
        /\ (request.sessionStorage # Absent) <=> (input.copySessionStorage # "false")
        /\ input.copyCookies = "false" =>
               \A i \in 1..Len(srv.trace) : srv.trace[i] # "addCookies"

\* a page with cookies asked for no cookie copy; the server went past its
\* cookie step and wrote the local storage that was still copied
C20_Witness ==
    /\ request # NoRequest
    /\ input.copyCookies = "false" /\ input.cookie # <<>>
    /\ input.copyLocalStorage = "unset" /\ input.copySessionStorage = "true"
    /\ request.cookies = Absent
    /\ request.localStorage # Absent /\ request.sessionStorage # Absent
    /\ \E i \in 1..Len(srv.trace) : srv.trace[i] = "setLocalStorage"
\* C22: once a stop has signalled a process, no later stdout output or exit
\* of that process changes the supervisor's handle or readiness flag.
C22_NoStaleTransitions ==
    [][\A p \in Pids :
          (signalled[p] /\ (wroteMarker'[p] # wroteMarker[p] \/ status'[p] # status[p]))
              => UNCHANGED <<serverProcess, isServerReady>>]_vars

\* C23: the readiness flag is true only while a process handle is tracked.
C23_ReadyOnlyWithHandle ==
    serverProcess = Null => ~isServerReady
\* C24: within one invocation the capture request is sent only after the
\* start response has been received, and the stop request is sent only after
\* the capture response has been received or the capture request has failed.
C24_StepsSequential ==
    LET r == orch[Solo]
    IN  /\ r.nCaptureReq > 0 => r.startOutcome = "received"
        /\ r.nStopReq > 0 => (r.nCaptureReq > 0 /\ r.pc # "captureSent")

\* C24 (amended): the capture request is sent only after the start response
\* has been received; the stop request is sent only when no capture request
\* is outstanding: after the capture response was received or the capture
\* request failed, or, when an earlier step failed and no capture request was
\* sent at all, after the error callback.
C24_StepsSequentialOrNoCapture ==
    LET r == orch[Solo]
    IN  /\ r.nCaptureReq > 0 => r.startOutcome = "received"
        /\ r.nStopReq > 0 => /\ r.pc # "captureSent"
                             /\ r.nCaptureReq = 0 => r.nError > 0

\* the stop request of an invocation whose capture request failed is out
C24_Witness ==
    LET r == orch[Solo]
    IN  /\ r.pc = "stopSentB"
        /\ r.startOutcome = "received"
        /\ r.nCaptureReq = 1
        /\ r.nStopReq = 1

\* C25: the outcome callback and the end callback are both invoked before the
\* stop request is issued, and the in-flight flag is cleared only after the
\* stop request has been issued.
C25_CallbacksBeforeStop ==
    LET r == orch[Solo]
    IN  /\ r.nStopReq > 0 => (r.nSuccess + r.nError > 0 /\ r.nEnd > 0)
        /\ (r.pc # "idle" /\ ~r.isTakingScreenshot) => r.nStopReq > 0

\* C26: when the start request fails or reports started:false, no capture
\* request is sent, the error callback is invoked once and the in-flight flag
\* is cleared when the invocation finishes.
C26_StartFailureReported ==
    LET r == orch[Solo]
    IN  r.startOutcome = "failed" =>
            /\ r.nCaptureReq = 0
            /\ Done(Solo) => (r.nError = 1 /\ ~r.isTakingScreenshot)

\* C28: one invocation sends at most one start request and at most one
\* capture request, and after a failure sends no further start or capture
\* request.
C28_NoRetry ==
    /\ [](orch[Solo].nStartReq <= 1 /\ orch[Solo].nCaptureReq <= 1)
    /\ [][(/\ invocations' = invocations
           /\ \/ orch[Solo].pc \in {"catch", "stopSentB", "stopRespB"}
              \/ orch[Solo].nError > 0)
          => /\ orch'[Solo].nStartReq = orch[Solo].nStartReq
             /\ orch'[Solo].nCaptureReq = orch[Solo].nCaptureReq]_vars

\* an invocation whose capture request failed finished with one start request
\* and one capture request
C28_Witness ==
    LET r == orch[Solo]
    IN  /\ Done(Solo)
        /\ r.nError = 1 /\ r.nSuccess = 0
        /\ r.nStartReq = 1 /\ r.nCaptureReq = 1

\* C30: after a start response with ready:false the capture request is sent
\* after exactly one settle delay and without another start request, whatever
\* the supervisor's readiness is by then.
C30_SettleOnceNoRecheck ==
    LET r == orch[Solo]
    IN  (r.nCaptureReq > 0 /\ r.startData.kind = "start" /\ ~r.startData.ready)
            => (r.nSettle = 1 /\ r.nStartReq = 1)

\* the capture request is out while the process the start request spawned is
\* tracked and has not written its readiness marker
C30_Witness ==
    LET r == orch[Solo]
    IN  /\ r.pc = "captureSent"
        /\ r.startData.kind = "start" /\ ~r.startData.ready
        /\ r.nSettle = 1
        /\ serverProcess # Null /\ r.usedPid = serverProcess
        /\ ~isServerReady
        /\ ~wroteMarker[serverProcess]
\* C27: the capture server injects the supplied cookies before any
\* navigation, then navigates to the origin, then writes local and session
\* storage, then navigates to the target URL, then captures, and only then
\* sends the success response.
C27_ServerStepOrder ==
    request # NoRequest =>
        LET ordered == {"addCookies", "gotoOrigin", "setLocalStorage",
                        "setSessionStorage", "gotoTarget", "capture"}
            done == SelectSeq(srv.trace, LAMBDA x : x \in ordered)
            expected ==
                (IF request.cookies # Absent /\ Len(request.cookies.some) > 0
                 THEN <<"addCookies">> ELSE <<>>)
                \o <<"gotoOrigin">>
                \o (IF request.localStorage # Absent THEN <<"setLocalStorage">> ELSE <<>>)
                \o (IF request.sessionStorage # Absent THEN <<"setSessionStorage">> ELSE <<>>)
                \o <<"gotoTarget", "capture">>
        IN  /\ Len(done) <= Len(expected)
            /\ done = SubSeq(expected, 1, Len(done))
            /\ (\E i \in 1..Len(srv.responses) : srv.responses[i].success)
                   => done = expected

\* a request with cookies and both storage areas was answered with success
C27_Witness ==
    /\ srv.pc = "done"
    /\ srv.responses = <<[status |-> 200, success |-> TRUE]>>
    /\ \E i \in 1..Len(srv.trace) : srv.trace[i] = "addCookies"
    /\ \E i \in 1..Len(srv.trace) : srv.trace[i] = "setLocalStorage"
    /\ \E i \in 1..Len(srv.trace) : srv.trace[i] = "setSessionStorage"
\* C29: overlapping invocations are not serialized: a start request that
\* finds a tracked process spawns nothing, and a stop request terminates the
\* tracked process although the other invocation, which was answered with the
\* same process, still has its capture request outstanding.
C29_OverlapSharesProcess ==
    [][/\ (lastOp' = "start" /\ serverProcess # Null)
            => (serverProcess' = serverProcess /\ Unspawned' = Unspawned)
       /\ \A c, d \in Callers :
            (/\ c # d
             /\ serverProcess # Null
             /\ orch[d].pc = "captureSent" /\ orch[d].usedPid = serverProcess
             /\ orch[c].pc \in {"stopSentA", "stopSentB"}
             /\ orch'[c].pc \in {"stopRespA", "stopRespB"})
            => (signalled'[serverProcess] /\ serverProcess' = Null)]_vars

\* one process was spawned, both invocations were answered with it, the
\* first to finish has stopped it and the other's capture request is out
C29_Witness ==
    \E c, d \in Callers :
        /\ c # d
        /\ orch[c].pc = "stopRespA"
        /\ orch[d].pc = "captureSent"
        /\ orch[c].usedPid # Null /\ orch[c].usedPid = orch[d].usedPid
        /\ signalled[orch[d].usedPid]
        /\ serverProcess = Null
        /\ Cardinality(Unspawned) = Cardinality(Pids) - 1
\* C21: when an invocation of the in-page hook has finished, onEnd has been
\* invoked exactly once, with the result that was passed to onSuccess or
\* onError, and isTakingScreenshot is false.
C21_PageEndOnceSameResult ==
    page.settled # "none" =>
        LET ends == SelectSeq(page.calls, LAMBDA x : x.cb = "onEnd")
        IN  /\ Len(ends) = 1
            /\ \E i \in 1..Len(page.calls) :
                   /\ page.calls[i].cb \in {"onSuccess", "onError"}
                   /\ page.calls[i].arg = ends[1].arg
            /\ ~page.isTakingScreenshot
\* C31: unless the caller overrode the server URL, the capture request is
\* sent to the port the supervisor was configured with, on which the
\* automation server it spawns listens and which the start response returns.
C31_CaptureGoesToServerPort ==
    (request # NoRequest /\ input.serverUrl = Absent) => srv.sentTo = port

\* C32: every cookie name/value pair of the page's cookie string (the value
\* being everything after the first '=') and every entry of local and session
\* storage appears unchanged in the capture request.
C32_SnapshotLossless ==
    request # NoRequest =>
        /\ request.cookies # Absent =>
              LET pieces == SelectSeq(Split(input.cookie, ";"), LAMBDA c : Trim(c) # <<>>)
                  sent == request.cookies.some
              IN  /\ Len(sent) = Len(pieces)
                  /\ \A i \in 1..Len(pieces) :
                        LET t == Trim(pieces[i])
                            eq == CHOOSE k \in 1..Len(t) :
                                     t[k] = "=" /\ \A j \in 1..(k - 1) : t[j] # "="
                        IN  /\ sent[i].name = SubSeq(t, 1, eq - 1)
                            /\ sent[i].value = Some(SubSeq(t, eq + 1, Len(t)))
        /\ request.localStorage # Absent => request.localStorage.some = input.localStorage
        /\ request.sessionStorage # Absent =>
              request.sessionStorage.some = input.sessionStorage
====
